---- MODULE Spec2Model ----
(***************************************************************************)
(* Model of the operation framework of davidlee/commandment                *)
(* (package internal/operation): the service registry, the operation bus   *)
(* (CreateOperation, CreateFromDescriptor), the execution wrapper          *)
(* (executeOperation) and the descriptor codec, together with the mock     *)
(* services of internal/services that supply the business logic.           *)
(* Spec drives that package from one goroutine; SpecConcurrent drives the  *)
(* registry from several; SpecDeps drives package commandment, whose bus   *)
(* and execution wrapper carry per-operation dependencies, and             *)
(* SpecDepsConcurrent constructs its operations from several goroutines.   *)
(***************************************************************************)
EXTENDS Integers, Sequences, FiniteSets, TLC

(***************************************************************************)
(* Bounds of the model.                                                    *)
(***************************************************************************)
MaxOps == 2
MaxClock == 2
MaxCalls == 5
NumGoroutines == 2

(***************************************************************************)
(* Go values.  A Go string is a sequence of code units; "xFF" stands for a *)
(* byte that is not valid UTF-8 and "uFFFD" for the replacement rune.      *)
(* time.Time is a natural number, 0 being the zero time.  A *int64 is a    *)
(* sequence of length at most one (<<>> is the nil pointer).  An error is  *)
(* its message and the thing the message names; NilError is the nil error. *)
(***************************************************************************)
Error(msg, about) == [msg |-> msg, about |-> about]
NilError == Error("", "")
ZeroTime == 0
NilPtr == <<>>
EmptyString == <<>>
InvalidByte == "xFF"
ReplacementRune == "uFFFD"

Contracts == {"TreeService", "ListService", "NodeService"}

OperationTypes == {"DisplayNodeTreeCommand", "CreateListCommand", "ShowNodeQuery"}

\* An operation type a caller declares without a field named Service:
\* its slots are Params, OperationMeta and Logger only.
ServicelessTypes == {"AuditCommand"}

\* The types CreateOperation[TOp] can be instantiated with.
DeclaredTypes == OperationTypes \cup ServicelessTypes

\* The nil reflect.Type.
NilType == "<nil>"

\* A service instance is a pointer (addr) to a value of a concrete type (impl).
Instance(impl, addr) == [impl |-> impl, addr |-> addr]

\* The contract a concrete implementation type is declared to satisfy.
Implements(impl) ==
    CASE impl = "MockTreeService" -> "TreeService"
      [] impl = "MockListService" -> "ListService"
      [] impl = "StubListService" -> "ListService"
      [] impl = "MockNodeService" -> "NodeService"
      [] impl = "DependencyAwareService" -> "DependencyAwareService"

ServiceInstances ==
    { Instance("MockTreeService", 1),
      Instance("MockListService", 1),
      Instance("StubListService", 1),
      Instance("MockNodeService", 1) }

(***************************************************************************)
(* Parameter types (params.go).  A Go value carried in an interface{} is a *)
(* pair of its dynamic type and its value.                                 *)
(***************************************************************************)
GoValue(gotype, val) == [gotype |-> gotype, val |-> val]

\* The declared type of every field of a parameter struct.
FieldTypes(gotype) ==
    CASE gotype = "DisplayNodeTreeCommandParams" ->
             [RootReference |-> "string", MaxDepth |-> "int"]
      [] gotype = "CreateListCommandParams" ->
             [Title |-> "string", Description |-> "string", ParentID |-> "*int64"]
      [] gotype = "ShowNodeQueryParams" ->
             [Ref |-> "int64"]

\* The zero value of a field type.
ZeroField(ft) ==
    CASE ft = "string" -> EmptyString
      [] ft = "int" -> 0
      [] ft = "int64" -> 0
      [] ft = "*int64" -> NilPtr

\* The zero value of a parameter struct (params := T{}).
ZeroParams(gotype) ==
    [f \in DOMAIN FieldTypes(gotype) |-> ZeroField(FieldTypes(gotype)[f])]

\* The Params slot of each operation type (operations.go).
ParamsType(opType) ==
    CASE opType = "DisplayNodeTreeCommand" -> "DisplayNodeTreeCommandParams"
      [] opType = "CreateListCommand" -> "CreateListCommandParams"
      [] opType = "ShowNodeQuery" -> "ShowNodeQueryParams"
      [] opType = "AuditCommand" -> "ShowNodeQueryParams"
      [] opType = "DependencyAwareOperation" -> "string"

(***************************************************************************)
(* encoding/json as used by mustMarshal and json.Unmarshal.  A JSON text   *)
(* is its syntax tree: null, a string literal (a sequence of literal       *)
(* fragments), a number literal (sign and decimal digits) or an object.    *)
(***************************************************************************)
JNull == [kind |-> "null"]
JString(lit) == [kind |-> "string", lit |-> lit]
JNumber(neg, digits) == [kind |-> "number", neg |-> neg, digits |-> digits]
JObject(fields) == [kind |-> "object", fields |-> fields]

\* One code unit of a Go string as it is written inside a JSON string
\* literal: '<' is escaped, an invalid byte is written as the escape of U+FFFD.
EscapeUnit(u) ==
    CASE u = "<" -> "\\u003c"
      [] u = InvalidByte -> "\\ufffd"
      [] OTHER -> u

\* A decoder that leaves \u escapes as they are written.
UnescapeFragmentRaw(t) == t

\* One fragment of a JSON string literal decoded to a code unit.
UnescapeFragment(t) ==
    CASE t = "\\u003c" -> "<"
      [] t = "\\ufffd" -> ReplacementRune
      [] OTHER -> t

EncodeString(s) == [i \in 1..Len(s) |-> EscapeUnit(s[i])]

DecodeString(lit) == [i \in 1..Len(lit) |-> UnescapeFragment(lit[i])]

RECURSIVE Digits(_)
Digits(n) == IF n < 10 THEN <<n>> ELSE Append(Digits(n \div 10), n % 10)

RECURSIVE DigitsValue(_)
DigitsValue(ds) ==
    IF Len(ds) = 0 THEN 0
    ELSE 10 * DigitsValue(SubSeq(ds, 1, Len(ds) - 1)) + ds[Len(ds)]

FormatInt(n) == IF n < 0 THEN JNumber(TRUE, Digits(0 - n)) ELSE JNumber(FALSE, Digits(n))

ParseInt(j) == IF j.neg THEN 0 - DigitsValue(j.digits) ELSE DigitsValue(j.digits)

\* json.Marshal of one struct field of declared type ft.
MarshalField(ft, v) ==
    CASE ft = "string" -> JString(EncodeString(v))
      [] ft = "int" -> FormatInt(v)
      [] ft = "int64" -> FormatInt(v)
      [] ft = "*int64" -> IF v = NilPtr THEN JNull ELSE FormatInt(v[1])

\* json.Marshal of the value held in descriptor.Params: the text, or an
\* UnsupportedTypeError for a value JSON has no form for (a channel).
jsonMarshal(v) ==
    CASE v.gotype = "nil" -> [err |-> NilError, data |-> JNull]
      [] v.gotype = "string" -> [err |-> NilError, data |-> JString(EncodeString(v.val))]
      [] v.gotype = "chan int" ->
          [err |-> Error("json: unsupported type", v.gotype), data |-> JNull]
      [] OTHER ->
          [err |-> NilError,
           data |-> JObject([f \in DOMAIN FieldTypes(v.gotype) |->
                               MarshalField(FieldTypes(v.gotype)[f], v.val[f])])]

\* mustMarshal(v): the text json.Marshal gives, or a panic with its error.
mustMarshal(v) ==
    LET m == jsonMarshal(v) IN
    [panic |-> m.err # NilError, data |-> m.data, err |-> m.err]

\* Whether a JSON value can be stored in a field of declared type ft.
FieldAccepts(ft, j) ==
    \/ j.kind = "null"
    \/ ft = "string" /\ j.kind = "string"
    \/ ft \in {"int", "int64", "*int64"} /\ j.kind = "number"

\* The value a field of declared type ft takes from the JSON value j.
UnmarshalField(ft, j) ==
    CASE j.kind = "null" -> ZeroField(ft)
      [] j.kind = "string" -> DecodeString(j.lit)
      [] j.kind = "number" -> IF ft = "*int64" THEN <<ParseInt(j)>> ELSE ParseInt(j)

\* json.Unmarshal(data, &params) with params := T{} of struct type gotype.
Unmarshal(j, gotype) ==
    LET fts == FieldTypes(gotype) IN
    CASE j.kind = "null" -> [err |-> NilError, val |-> ZeroParams(gotype)]
      [] j.kind = "object" ->
          LET present == DOMAIN fts \cap DOMAIN j.fields IN
          IF \A f \in present : FieldAccepts(fts[f], j.fields[f])
          THEN [err |-> NilError,
                val |-> [f \in DOMAIN fts |->
                            IF f \in present
                            THEN UnmarshalField(fts[f], j.fields[f])
                            ELSE ZeroField(fts[f])]]
          ELSE [err |-> Error("json: cannot unmarshal into Go struct field", gotype),
                val |-> ZeroParams(gotype)]
      [] OTHER -> [err |-> Error("json: cannot unmarshal into Go value", gotype),
                   val |-> ZeroParams(gotype)]

(***************************************************************************)
(* Business logic: the mock services of internal/services.  A call         *)
(* returns the pair (result, err).                                         *)
(***************************************************************************)
Node(id, title, description) == [ID |-> id, Title |-> title, Description |-> description]

ZeroNode == Node(0, EmptyString, EmptyString)

MockNodes ==
    << Node(1, <<"Root Node">>, <<"The root of the tree">>),
       Node(2, <<"Child Node 1">>, <<"First child">>),
       Node(3, <<"Child Node 2">>, <<"Second child">>) >>

min(a, b) == IF a < b THEN a ELSE b

\* MockTreeService.DisplayTree
DisplayTree(impl, params) ==
    IF params.MaxDepth <= 0
    THEN [result |-> [Nodes |-> <<>>, Stats |-> [TotalNodes |-> 0, MaxDepth |-> 0]],
          err |-> Error("MaxDepth must be positive", "MaxDepth")]
    ELSE [result |-> [Nodes |-> SubSeq(MockNodes, 1, min(Len(MockNodes), params.MaxDepth + 1)),
                      Stats |-> [TotalNodes |-> Len(MockNodes), MaxDepth |-> 2]],
          err |-> NilError]

\* MockListService.CreateList
CreateList(impl, params) ==
    IF params.Title = EmptyString
    THEN [result |-> [Node |-> ZeroNode,
                      Errors |-> <<[Field |-> "Title", Message |-> "Title is required"]>>],
          err |-> NilError]
    ELSE [result |-> [Node |-> Node(42, params.Title, params.Description), Errors |-> <<>>],
          err |-> NilError]

\* Another implementation of the ListService contract, supplied by the
\* caller: it always fails.
StubCreateList(impl, params) ==
    [result |-> [Node |-> ZeroNode, Errors |-> <<>>],
     err |-> Error("list service unavailable", "")]

\* MockNodeService.ShowNode
ShowNode(impl, params) ==
    IF params.Ref <= 0
    THEN [result |-> ZeroNode, err |-> Error("invalid node reference", "Ref")]
    ELSE [result |-> Node(params.Ref, <<"Node ", ToString(params.Ref)>>,
                          <<"This is node with ID ", ToString(params.Ref)>>),
          err |-> NilError]


(***************************************************************************)
(* Service registry (registry.go): a map from contract to instance.        *)
(***************************************************************************)
NoInstance == Instance("", 0)

\* A registry that stores a copy of the instance instead of the instance.
registerCopy(svcs, serviceType, service) ==
    [c \in DOMAIN svcs \cup {serviceType} |->
        IF c = serviceType THEN Instance(service.impl, service.addr + 1) ELSE svcs[c]]

\* A registry that keeps the first registration of a contract.
registerKeepFirst(svcs, serviceType, service) ==
    [c \in DOMAIN svcs \cup {serviceType} |->
        IF c \in DOMAIN svcs THEN svcs[c] ELSE service]

\* r.services[serviceType] = service
register(svcs, serviceType, service) ==
    [c \in DOMAIN svcs \cup {serviceType} |->
        IF c = serviceType THEN service ELSE svcs[c]]

\* A lookup that answers with the map's zero value when the key is absent.
getOrNil(svcs, serviceType) ==
    IF serviceType \in DOMAIN svcs
    THEN [panic |-> FALSE, service |-> svcs[serviceType], msg |-> NilError]
    ELSE [panic |-> FALSE, service |-> NoInstance, msg |-> NilError]

\* r.get(serviceType): the stored instance, or a panic when absent.
get(svcs, serviceType) ==
    IF serviceType \in DOMAIN svcs
    THEN [panic |-> FALSE, service |-> svcs[serviceType], msg |-> NilError]
    ELSE [panic |-> TRUE, service |-> NoInstance,
          msg |-> Error("Service type not registered", serviceType)]

(***************************************************************************)
(* Metadata, descriptors and operation instances (operation.go,            *)
(* operations.go).  A UUID is a natural number standing for the hex string *)
(* of 16 random bytes; 0 stands for the empty string.                      *)
(***************************************************************************)
OperationMetadata(uuid, created, executed, returned) ==
    [UUID |-> uuid, Created |-> created, Executed |-> executed, Returned |-> returned]

ZeroMetadata == OperationMetadata(0, ZeroTime, ZeroTime, ZeroTime)

OperationDescriptor(type, params, metadata) ==
    [Type |-> type, Params |-> params, Metadata |-> metadata]

\* OperationDescriptor{}: the zero value.
ZeroDescriptor == OperationDescriptor("", GoValue("nil", <<>>), ZeroMetadata)

\* encoding/json's isEmptyValue, which decides what `omitempty` drops: an
\* empty string is empty, a struct value (time.Time is one) never is.
isEmptyValue(kind, v) ==
    CASE kind = "string" -> v = EmptyString
      [] kind = "struct" -> FALSE

\* time.Time.MarshalJSON: the RFC 3339 text of the instant.
FormatTime(t) == IF t = ZeroTime THEN "0001-01-01T00:00:00Z" ELSE "T+" \o ToString(t)

\* The fields of OperationMetadata with their json tags.
MetadataFields ==
    { [go |-> "UUID", name |-> "uuid", kind |-> "string", omitempty |-> FALSE],
      [go |-> "Created", name |-> "created", kind |-> "struct", omitempty |-> FALSE],
      [go |-> "Executed", name |-> "executed", kind |-> "struct", omitempty |-> TRUE],
      [go |-> "Returned", name |-> "returned", kind |-> "struct", omitempty |-> TRUE] }

\* json.Marshal of one metadata field.
MarshalMetadataField(f, v) ==
    IF f.kind = "struct"
    THEN JString(<<FormatTime(v)>>)
    ELSE JString(IF v = 0 THEN EmptyString ELSE <<ToString(v)>>)

\* json.Marshal of an OperationMetadata value.
MarshalMetadata(m) ==
    LET kept == { f \in MetadataFields : ~(f.omitempty /\ isEmptyValue(f.kind, m[f.go])) }
    IN JObject([n \in { f.name : f \in kept } |->
                  LET f == CHOOSE g \in kept : g.name = n
                  IN MarshalMetadataField(f, m[f.go])])

\* OperationDescriptor.MarshalJSON: the object with type, metadata and the
\* params text mustMarshal gives, or mustMarshal's panic.
MarshalJSON(d) ==
    LET raw == mustMarshal(d.Params) IN
    [panic |-> raw.panic,
     err |-> raw.err,
     data |-> JObject([type |-> JString(IF d.Type = "" THEN EmptyString ELSE <<d.Type>>),
                       metadata |-> MarshalMetadata(d.Metadata),
                       params |-> raw.data])]

\* The four slots of an operation struct.
Operation(type, params, service, metadata, logger) ==
    [type |-> type, Params |-> params, Service |-> service,
     OperationMeta |-> metadata, Logger |-> logger]

\* op.Metadata(): a copy of the metadata.
Metadata(op) == op.OperationMeta

\* op.Descriptor(): type tag, the Params value and a copy of the metadata.
Descriptor(op) ==
    OperationDescriptor(op.type, GoValue(ParamsType(op.type), op.Params), op.OperationMeta)

\* getRequiredServiceType: the declared type of the field named Service;
\* FieldByName's ok is dropped, so a type without that field gives the
\* Type of the zero StructField, which is nil.
getRequiredServiceType(opType) ==
    CASE opType = "DisplayNodeTreeCommand" -> "TreeService"
      [] opType = "CreateListCommand" -> "ListService"
      [] opType = "ShowNodeQuery" -> "NodeService"
      [] opType = "DependencyAwareOperation" -> "DependencyAwareService"
      [] OTHER -> NilType

\* newOperationWithService: a fresh struct with its four slots set by
\* reflect.Value.Set, which panics when the value is not assignable to the
\* slot's declared type.
newOperationWithService(opType, params, service, metadata, logger) ==
    IF params.gotype # ParamsType(opType)
    THEN [panic |-> TRUE,
          op |-> Operation(opType, <<>>, service, ZeroMetadata, logger),
          err |-> Error("reflect.Set: value is not assignable to type", params.gotype)]
    ELSE [panic |-> FALSE,
          op |-> Operation(opType, params.val, service, metadata, logger),
          err |-> NilError]

\* The closure each Execute method hands to executeOperation: a call of the
\* injected service's method, dispatched on the instance's concrete type.
businessLogic(op) ==
    CASE op.type = "DisplayNodeTreeCommand" -> DisplayTree(op.Service.impl, op.Params)
      [] op.type = "CreateListCommand" ->
            IF op.Service.impl = "StubListService"
            THEN StubCreateList(op.Service.impl, op.Params)
            ELSE CreateList(op.Service.impl, op.Params)
      [] op.type = "ShowNodeQuery" -> ShowNode(op.Service.impl, op.Params)

(***************************************************************************)
(* Inputs of the public calls.                                             *)
(***************************************************************************)
ParamValues(opType) ==
    CASE opType = "DisplayNodeTreeCommand" ->
            { [RootReference |-> <<"test-root">>, MaxDepth |-> 2] }
      [] opType = "CreateListCommand" ->
            { [Title |-> EmptyString, Description |-> EmptyString, ParentID |-> NilPtr],
              [Title |-> <<"Test List", "<">>, Description |-> <<"A test list">>,
               ParentID |-> <<0 - 17>>],
              [Title |-> <<"Bad", InvalidByte>>, Description |-> EmptyString,
               ParentID |-> NilPtr] }
      [] opType = "ShowNodeQuery" ->
            { [Ref |-> 42], [Ref |-> 0] }
      [] opType = "AuditCommand" ->
            { [Ref |-> 42] }

\* Values of another type than the Params slot, which `params any` admits.
MismatchedArgs(opType) ==
    IF opType = "ShowNodeQuery" THEN { GoValue("string", <<"42">>) } ELSE {}

\* The values a caller passes as `params any` to CreateOperation[TOp].
CreateArgs(opType) ==
    { GoValue(ParamsType(opType), v) : v \in ParamValues(opType) }
        \cup MismatchedArgs(opType)

\* Descriptors a caller builds by hand or reads from storage: an unknown
\* type tag, a known tag whose payload is a string instead of a record, a
\* known tag whose payload is a channel, and a well-formed descriptor of an
\* operation another process created.
ForeignDescriptors ==
    { OperationDescriptor("ShowNodeQuery",
                          GoValue("ShowNodeQueryParams", [Ref |-> 42]),
                          OperationMetadata(0, 1, ZeroTime, ZeroTime)),
      OperationDescriptor("DeleteNodeCommand",
                          GoValue("ShowNodeQueryParams", [Ref |-> 42]),
                          OperationMetadata(0, 1, ZeroTime, ZeroTime)),
      OperationDescriptor("ShowNodeQuery", GoValue("string", <<"42">>),
                          OperationMetadata(0, 1, ZeroTime, ZeroTime)),
      OperationDescriptor("ShowNodeQuery", GoValue("chan int", <<>>),
                          OperationMetadata(0, 1, ZeroTime, ZeroTime)) }

(***************************************************************************)
(* State.                                                                  *)
(***************************************************************************)
VARIABLES
    services,   \* registry.services: contract -> instance
    ops,        \* the operation instances allocated so far (index = pointer)
    origin,     \* for each of them, the entry point that built it
    events,     \* what the logger and the services observed during the latest
                \* public call, in order
    clock,      \* the latest reading of time.Now()
    generated,  \* how many UUIDs generateUUID has produced
    desc,       \* the descriptor the caller holds
    descOf,     \* the operation desc was taken from (0: none)
    pc,         \* position inside Execute: "idle", "invoke" or "return"
    cur,        \* the running Execute: operation and pending result
    calls,      \* how many public calls the caller has made
    ret,        \* what the last public call returned
    accessing,  \* for each goroutine, its access to registry.services in progress
    defaultDeps,            \* bus.defaultDeps (package commandment)
    operationDependencies,  \* the package-level map from operation to dependencies
    ctx         \* the context the latest ExecuteOperation handed on

vars == <<services, ops, origin, events, clock, generated, desc, descOf, pc, cur, calls, ret,
          accessing, defaultDeps, operationDependencies, ctx>>

\* What the operations of package operation never touch: they run on one
\* goroutine and know no dependencies.
extVars == <<accessing, defaultDeps, operationDependencies, ctx>>

BusLogger == "logger"

NoResult == [none |-> TRUE]

Ret(call, outcome, op, err, result, arg, from) ==
    [call |-> call, outcome |-> outcome, op |-> op, err |-> err,
     result |-> result, arg |-> arg, from |-> from]

LogEvent(level, msg, id) == [kind |-> level, msg |-> msg, id |-> id]

CallEvent(id) == [kind |-> "Call", msg |-> "businessLogic", id |-> id]

NoCur == [op |-> 0, result |-> NoResult, err |-> NilError]

\* The goroutines that use one registry.
Goroutines == 1..NumGoroutines

\* An access to the map registry.services in progress: the statement
\* r.services[key] = service ("write") or service, exists := r.services[key]
\* ("read").
Access(kind, key, service) == [kind |-> kind, key |-> key, service |-> service]

NoAccess == Access("none", "", NoInstance)

\* Dependencies are pointers to caller-defined structs; NilDeps is the nil
\* interface value.
NilDeps == [gotype |-> "nil", Value |-> EmptyString]

TestDependencies(value) == [gotype |-> "*TestDependencies", Value |-> value]

SpecialDependencies(value) == [gotype |-> "*SpecialDependencies", Value |-> value]

\* A context.Context, as far as the package's two keys go: the value
\* under dependenciesKey and the value under operationMetadataKey (the
\* operation whose metadata the pointer refers to, 0 when absent).
Background == [deps |-> NilDeps, meta |-> 0]

\* No entry of the package-level map operationDependencies.
NoDependencies == [o \in {} |-> NilDeps]

\* The state after NewServiceRegistry and the construction of the bus with
\* the default dependencies deps (nil for NewOperationBus).
InitWith(deps) ==
    /\ accessing = [g \in Goroutines |-> NoAccess]
    /\ defaultDeps = deps
    /\ operationDependencies = NoDependencies
    /\ ctx = Background
    /\ services = [c \in {} |-> NoInstance]
    /\ ops = << >>
    /\ origin = << >>
    /\ events = << >>
    /\ clock = 1
    /\ generated = 0
    /\ desc = ZeroDescriptor
    /\ descOf = 0
    /\ pc = "idle"
    /\ cur = NoCur
    /\ calls = 0
    /\ ret = Ret("", "ok", 0, NilError, NoResult, "", 0)

Init == InitWith(NilDeps)


(***************************************************************************)
(* Registry operations.                                                    *)
(***************************************************************************)
\* RegisterService[T](r, service): T is the contract c; the compiler has
\* checked that the instance implements it.
RegisterService(c, x) ==
    /\ pc = "idle"
    /\ calls < MaxCalls
    /\ calls' = calls + 1
    /\ Implements(x.impl) = c
    /\ services' = register(services, c, x)
    /\ ret' = Ret("RegisterService", "ok", 0, NilError, x, c, 0)
    /\ events' = << >>
    /\ UNCHANGED <<ops, origin, clock, generated, desc, descOf, pc, cur>>
    /\ UNCHANGED extVars

\* GetService[T](r)
GetService(c) ==
    /\ pc = "idle"
    /\ calls < MaxCalls
    /\ calls' = calls + 1
    /\ LET got == get(services, c) IN
       ret' = IF got.panic
              THEN Ret("GetService", "panic", 0, got.msg, NoInstance, c, 0)
              ELSE Ret("GetService", "ok", 0, NilError, got.service, c, 0)
    /\ events' = << >>
    /\ UNCHANGED <<services, ops, origin, clock, generated, desc, descOf, pc, cur>>
    /\ UNCHANGED extVars

(***************************************************************************)
(* Operation bus (bus.go).                                                 *)
(***************************************************************************)
\* A generator that returns the same identifier every time.
generateUUIDFixed(n) == 1

\* generateUUID(): the hex string of 16 random bytes; the bytes are taken
\* to be fresh (a repeat has probability 2^-128), n counting the earlier
\* draws.
generateUUID(n) == n + 1

\* CreateOperation[TOp](bus, params); time.Now() reads clock + dt.
CreateOperation(opType, params, dt) ==
    /\ pc = "idle"
    /\ calls < MaxCalls
    /\ calls' = calls + 1
    /\ Len(ops) < MaxOps
    /\ clock + dt <= MaxClock
    /\ LET serviceType == getRequiredServiceType(opType)
           got == get(services, serviceType)
           metadata == OperationMetadata(generateUUID(generated), clock + dt,
                                         ZeroTime, ZeroTime)
           built == newOperationWithService(opType, params, got.service, metadata,
                                            BusLogger)
       IN IF got.panic
          THEN /\ ret' = Ret("CreateOperation", "panic", 0, got.msg, NoResult, serviceType, 0)
               /\ events' = << >>
               /\ UNCHANGED <<ops, origin, clock, generated>>
          ELSE /\ generated' = generated + 1
               /\ clock' = clock + dt
               /\ events' = <<LogEvent("Info", "Operation created", metadata.UUID)>>
               /\ IF built.panic
                  THEN /\ ret' = Ret("CreateOperation", "panic", 0, built.err, NoResult,
                                     serviceType, 0)
                       /\ UNCHANGED <<ops, origin>>
                  ELSE /\ ops' = Append(ops, built.op)
                       /\ origin' = Append(origin, "CreateOperation")
                       /\ ret' = Ret("CreateOperation", "ok", Len(ops) + 1, NilError,
                                     NoResult, serviceType, 0)
    /\ UNCHANGED <<services, desc, descOf, pc, cur>>
    /\ UNCHANGED extVars

\* A Descriptor method that records in the operation that it was read.
TakeDescriptorStamping(o) ==
    /\ pc = "idle"
    /\ calls < MaxCalls
    /\ calls' = calls + 1
    /\ o \in 1..Len(ops)
    /\ desc' = Descriptor(ops[o])
    /\ descOf' = o
    /\ ops' = [ops EXCEPT ![o].OperationMeta.Returned = clock]
    /\ ret' = Ret("Descriptor", "ok", o, NilError, NoResult, ops[o].type, 0)
    /\ events' = << >>
    /\ UNCHANGED <<services, origin, clock, generated, pc, cur>>
    /\ UNCHANGED extVars

\* op.Descriptor(): the caller keeps the snapshot.
TakeDescriptor(o) ==
    /\ pc = "idle"
    /\ calls < MaxCalls
    /\ calls' = calls + 1
    /\ o \in 1..Len(ops)
    /\ desc' = Descriptor(ops[o])
    /\ descOf' = o
    /\ ret' = Ret("Descriptor", "ok", o, NilError, NoResult, ops[o].type, 0)
    /\ events' = << >>
    /\ UNCHANGED <<services, ops, origin, clock, generated, pc, cur>>
    /\ UNCHANGED extVars

\* createDisplayNodeTreeCommand / createCreateListCommand / createShowNodeQuery:
\* the operation rebuilt from decoded params and the descriptor's metadata.
createFromParams(opType, params, service, metadata) ==
    Operation(opType, params, service, metadata, BusLogger)

\* An unknown-type error that does not say which tag it met.
unknownTypeErrorNoTag(tag) == Error("unknown operation type", "")

\* fmt.Errorf("unknown operation type: %s", descriptor.Type)
unknownTypeError(tag) == Error("unknown operation type", tag)

\* bus.CreateFromDescriptor(descriptor)
CreateFromDescriptor(d) ==
    /\ pc = "idle"
    /\ calls < MaxCalls
    /\ calls' = calls + 1
    /\ Len(ops) < MaxOps
    /\ LET from == IF d = desc THEN descOf ELSE 0 IN
       IF d.Type \in OperationTypes
       THEN LET raw == mustMarshal(d.Params)
                decoded == Unmarshal(raw.data, ParamsType(d.Type))
                got == get(services, getRequiredServiceType(d.Type))
            IN IF raw.panic
               THEN /\ ret' = Ret("CreateFromDescriptor", "panic", 0, raw.err,
                                  NoResult, d.Type, from)
                    /\ UNCHANGED <<ops, origin>>
               ELSE IF decoded.err # NilError
               THEN /\ ret' = Ret("CreateFromDescriptor", "error", 0, decoded.err,
                                  NoResult, d.Type, from)
                    /\ UNCHANGED <<ops, origin>>
               ELSE IF got.panic
               THEN /\ ret' = Ret("CreateFromDescriptor", "panic", 0, got.msg,
                                  NoResult, d.Type, from)
                    /\ UNCHANGED <<ops, origin>>
               ELSE /\ ops' = Append(ops, createFromParams(d.Type, decoded.val,
                                                           got.service, d.Metadata))
                    /\ origin' = Append(origin, "CreateFromDescriptor")
                    /\ ret' = Ret("CreateFromDescriptor", "ok", Len(ops) + 1, NilError,
                                  NoResult, d.Type, from)
       ELSE /\ ret' = Ret("CreateFromDescriptor", "error", 0,
                          unknownTypeError(d.Type), NoResult, d.Type, from)
            /\ UNCHANGED <<ops, origin>>
    /\ events' = << >>
    /\ UNCHANGED <<services, clock, generated, desc, descOf, pc, cur>>
    /\ UNCHANGED extVars

\* json.Marshal(descriptor): the caller serializes a descriptor.
MarshalDescriptor(d) ==
    /\ pc = "idle"
    /\ calls < MaxCalls
    /\ calls' = calls + 1
    /\ LET from == IF d = desc THEN descOf ELSE 0
           m == MarshalJSON(d)
       IN ret' = IF m.panic
                 THEN Ret("MarshalJSON", "panic", 0, m.err, NoResult, d.Type, from)
                 ELSE Ret("MarshalJSON", "ok", 0, NilError, m.data, d.Type, from)
    /\ events' = << >>
    /\ UNCHANGED <<services, ops, origin, clock, generated, desc, descOf, pc, cur>>
    /\ UNCHANGED extVars

(***************************************************************************)
(* Execution wrapper (operation.go, executeOperation), in three steps:     *)
(* up to the "started" event, the business-logic call, and the rest.       *)
(***************************************************************************)
\* A wrapper that gives the operation a new id each time it runs.
stampExecutedNewId(meta, now) == [meta EXCEPT !.Executed = now, !.UUID = @ + 1]

\* A wrapper that stamps Executed only the first time the operation runs.
stampExecutedOnce(meta, now) ==
    IF meta.Executed = ZeroTime THEN [meta EXCEPT !.Executed = now] ELSE meta

\* op.getMetadata().Executed = time.Now()
stampExecuted(meta, now) == [meta EXCEPT !.Executed = now]

\* A wrapper that moves the creation time to the end of the run.
stampReturnedAndCreated(meta, now) == [meta EXCEPT !.Returned = now, !.Created = now]

\* A wrapper that stamps Returned with the creation time.
stampReturnedStale(meta, now) == [meta EXCEPT !.Returned = meta.Created]

\* op.getMetadata().Returned = time.Now()
stampReturned(meta, now) == [meta EXCEPT !.Returned = now]

\* A wrapper that reports every run as completed.
terminalEventAlwaysCompleted(id, err) ==
    LogEvent("Info", "Operation execution completed", id)

\* The log event that follows the business logic.
terminalEvent(id, err) ==
    IF err # NilError
    THEN LogEvent("Error", "Operation execution failed", id)
    ELSE LogEvent("Info", "Operation execution completed", id)

\* A wrapper that swallows the business error.
returnPairSwallowErr(result, err) == [result |-> result, err |-> NilError]

\* return result, err
returnPair(result, err) == [result |-> result, err |-> err]

\* A wrapper that finds the metadata to stamp by the operation's id.
ExecuteBeginById(o, dt) ==
    /\ pc = "idle"
    /\ calls < MaxCalls
    /\ calls' = calls + 1
    /\ o \in 1..Len(ops)
    /\ clock + dt <= MaxClock
    /\ clock' = clock + dt
    /\ ops' = [i \in 1..Len(ops) |->
                 IF ops[i].OperationMeta.UUID = ops[o].OperationMeta.UUID
                 THEN [ops[i] EXCEPT !.OperationMeta = stampExecuted(@, clock + dt)]
                 ELSE ops[i]]
    /\ events' = <<LogEvent("Info", "Operation execution started",
                            ops[o].OperationMeta.UUID)>>
    /\ cur' = [op |-> o, result |-> NoResult, err |-> NilError]
    /\ pc' = "invoke"
    /\ UNCHANGED <<services, origin, generated, desc, descOf, ret>>
    /\ UNCHANGED extVars

ExecuteBegin(o, dt) ==
    /\ pc = "idle"
    /\ calls < MaxCalls
    /\ calls' = calls + 1
    /\ o \in 1..Len(ops)
    /\ clock + dt <= MaxClock
    /\ clock' = clock + dt
    /\ ops' = [ops EXCEPT ![o].OperationMeta = stampExecuted(@, clock + dt)]
    /\ events' = <<LogEvent("Info", "Operation execution started",
                            ops[o].OperationMeta.UUID)>>
    /\ cur' = [op |-> o, result |-> NoResult, err |-> NilError]
    /\ pc' = "invoke"
    /\ UNCHANGED <<services, origin, generated, desc, descOf, ret>>
    /\ UNCHANGED extVars

\* A wrapper that calls the business logic again when it fails.
InvokeBusinessLogicRetry ==
    /\ pc = "invoke"
    /\ LET r == businessLogic(ops[cur.op]) IN
       /\ cur' = [cur EXCEPT !.result = r.result, !.err = r.err]
       /\ events' = IF r.err # NilError
                    THEN events \o <<CallEvent(ops[cur.op].OperationMeta.UUID),
                                     CallEvent(ops[cur.op].OperationMeta.UUID)>>
                    ELSE Append(events, CallEvent(ops[cur.op].OperationMeta.UUID))
    /\ pc' = "return"
    /\ UNCHANGED <<services, ops, origin, clock, generated, desc, descOf, calls, ret>>
    /\ UNCHANGED extVars

\* A wrapper whose business logic calls the instance the registry holds when
\* the operation runs.
InvokeBusinessLogicLate ==
    /\ pc = "invoke"
    /\ LET op == ops[cur.op]
           r == businessLogic([op EXCEPT
                                 !.Service = services[getRequiredServiceType(op.type)]])
       IN cur' = [cur EXCEPT !.result = r.result, !.err = r.err]
    /\ events' = Append(events, CallEvent(ops[cur.op].OperationMeta.UUID))
    /\ pc' = "return"
    /\ UNCHANGED <<services, ops, origin, clock, generated, desc, descOf, calls, ret>>
    /\ UNCHANGED extVars

\* result, err := businessLogic()
InvokeBusinessLogic ==
    /\ pc = "invoke"
    /\ LET r == businessLogic(ops[cur.op]) IN
       cur' = [cur EXCEPT !.result = r.result, !.err = r.err]
    /\ events' = Append(events, CallEvent(ops[cur.op].OperationMeta.UUID))
    /\ pc' = "return"
    /\ UNCHANGED <<services, ops, origin, clock, generated, desc, descOf, calls, ret>>
    /\ UNCHANGED extVars

\* A wrapper working on an operation whose descriptors share its metadata.
ExecuteEndLive(dt) ==
    /\ pc = "return"
    /\ clock + dt <= MaxClock
    /\ clock' = clock + dt
    /\ ops' = [ops EXCEPT ![cur.op].OperationMeta = stampReturned(@, clock + dt)]
    /\ desc' = IF descOf = cur.op
               THEN [desc EXCEPT !.Metadata = stampReturned(ops[cur.op].OperationMeta,
                                                            clock + dt)]
               ELSE desc
    /\ events' = Append(events, terminalEvent(ops[cur.op].OperationMeta.UUID, cur.err))
    /\ LET out == returnPair(cur.result, cur.err) IN
       ret' = Ret("Execute", "ok", cur.op, out.err, out.result, ops[cur.op].type, 0)
    /\ pc' = "idle"
    /\ cur' = NoCur
    /\ UNCHANGED <<services, origin, generated, descOf, calls>>
    /\ UNCHANGED extVars

ExecuteEnd(dt) ==
    /\ pc = "return"
    /\ clock + dt <= MaxClock
    /\ clock' = clock + dt
    /\ ops' = [ops EXCEPT ![cur.op].OperationMeta = stampReturned(@, clock + dt)]
    /\ events' = Append(events, terminalEvent(ops[cur.op].OperationMeta.UUID, cur.err))
    /\ LET out == returnPair(cur.result, cur.err) IN
       ret' = Ret("Execute", "ok", cur.op, out.err, out.result, ops[cur.op].type, 0)
    /\ pc' = "idle"
    /\ cur' = NoCur
    /\ UNCHANGED <<services, origin, generated, desc, descOf, calls>>
    /\ UNCHANGED extVars

Next ==
    \/ \E c \in Contracts, x \in ServiceInstances : RegisterService(c, x)
    \/ \E c \in Contracts : GetService(c)
    \/ \E t \in DeclaredTypes, dt \in 0..1 :
          \E p \in CreateArgs(t) : CreateOperation(t, p, dt)
    \/ \E o \in 1..MaxOps : TakeDescriptor(o)
    \/ CreateFromDescriptor(desc)
    \/ \E d \in ForeignDescriptors : CreateFromDescriptor(d)
    \/ MarshalDescriptor(desc)
    \/ \E o \in 1..MaxOps, dt \in 0..1 : ExecuteBegin(o, dt)
    \/ InvokeBusinessLogic
    \/ \E dt \in 0..1 : ExecuteEnd(dt)

Spec == Init /\ [][Next]_vars

(***************************************************************************)
(* The registry used from several goroutines (registry.go).  register and  *)
(* get take no lock: a goroutine's access to the map begins and ends in    *)
(* separate steps, and other goroutines run in between.  The Go runtime    *)
(* may detect a map write that overlaps another access and then throws     *)
(* (the process dies), or the accesses complete.                           *)
(***************************************************************************)
\* Another goroutine than g is inside the map while g is, one of them writing.
Overlapped(g) ==
    \E h \in Goroutines \ {g} :
        /\ accessing[h].kind # "none"
        /\ "write" \in {accessing[g].kind, accessing[h].kind}

\* fatal error: concurrent map writes / concurrent map read and map write
Throw(call, key) ==
    Ret(call, "fatal", 0, Error("fatal error: concurrent map access", key), NoResult, key, 0)

\* RegisterService[T](r, service) reaches r.services[serviceType] = service.
registerBegin(g, c, x) ==
    /\ ret.outcome # "fatal"
    /\ accessing[g] = NoAccess
    /\ Implements(x.impl) = c
    /\ accessing' = [accessing EXCEPT ![g] = Access("write", c, x)]
    /\ UNCHANGED <<services, ops, origin, events, clock, generated, desc, descOf, pc, cur,
                   calls, ret, defaultDeps, operationDependencies, ctx>>

\* The assignment completes, or the runtime throws.
registerEnd(g) ==
    /\ ret.outcome # "fatal"
    /\ accessing[g].kind = "write"
    /\ accessing' = [accessing EXCEPT ![g] = NoAccess]
    /\ \/ /\ services' = register(services, accessing[g].key, accessing[g].service)
          /\ ret' = Ret("RegisterService", "ok", 0, NilError, accessing[g].service,
                        accessing[g].key, 0)
       \/ /\ Overlapped(g)
          /\ ret' = Throw("RegisterService", accessing[g].key)
          /\ UNCHANGED services
    /\ UNCHANGED <<ops, origin, events, clock, generated, desc, descOf, pc, cur,
                   calls, defaultDeps, operationDependencies, ctx>>

\* GetService[T](r) reaches service, exists := r.services[serviceType].
getBegin(g, c) ==
    /\ ret.outcome # "fatal"
    /\ accessing[g] = NoAccess
    /\ accessing' = [accessing EXCEPT ![g] = Access("read", c, NoInstance)]
    /\ UNCHANGED <<services, ops, origin, events, clock, generated, desc, descOf, pc, cur,
                   calls, ret, defaultDeps, operationDependencies, ctx>>

\* The read completes and get returns or panics, or the runtime throws.
getEnd(g) ==
    /\ ret.outcome # "fatal"
    /\ accessing[g].kind = "read"
    /\ accessing' = [accessing EXCEPT ![g] = NoAccess]
    /\ \/ LET got == get(services, accessing[g].key) IN
          ret' = IF got.panic
                 THEN Ret("GetService", "panic", 0, got.msg, NoInstance, accessing[g].key, 0)
                 ELSE Ret("GetService", "ok", 0, NilError, got.service, accessing[g].key, 0)
       \/ /\ Overlapped(g)
          /\ ret' = Throw("GetService", accessing[g].key)
    /\ UNCHANGED <<services, ops, origin, events, clock, generated, desc, descOf, pc, cur,
                   calls, defaultDeps, operationDependencies, ctx>>

NextConcurrent ==
    \/ \E g \in Goroutines, c \in Contracts, x \in ServiceInstances : registerBegin(g, c, x)
    \/ \E g \in Goroutines : registerEnd(g)
    \/ \E g \in Goroutines, c \in Contracts : getBegin(g, c)
    \/ \E g \in Goroutines : getEnd(g)

SpecConcurrent == Init /\ [][NextConcurrent]_vars

(***************************************************************************)
(* Package commandment: the bus with default dependencies, the map from    *)
(* operation to dependencies, and the context-aware execution wrapper.     *)
(* The operation type is DependencyAwareOperation, whose business logic    *)
(* reads the dependencies from the context it is handed.                   *)
(***************************************************************************)
\* context.WithValue(ctx, dependenciesKey, deps)
WithDependencies(c, deps) == [c EXCEPT !.deps = deps]

\* ctx.Value(dependenciesKey)
DependenciesFromContext(c) == c.deps

\* An enrichment that keeps the metadata a context already carries.
WithOperationMetadataKeep(c, meta) == IF c.meta # 0 THEN c ELSE [c EXCEPT !.meta = meta]

\* context.WithValue(ctx, operationMetadataKey, meta)
WithOperationMetadata(c, meta) == [c EXCEPT !.meta = meta]

\* ctx.Value(operationMetadataKey).(*OperationMetadata): the pointer, nil (0)
\* when the context carries none.
OperationMetadataFromContext(c) == c.meta

\* operationDependencies[op] = deps
storeOperationDependencies(tbl, op, deps) ==
    [k \in DOMAIN tbl \cup {op} |-> IF k = op THEN deps ELSE tbl[k]]

\* A lookup that answers with the dependencies stored last, whichever
\* operation they were stored for.
GetOperationDependenciesLatest(tbl, op) ==
    IF DOMAIN tbl = {} THEN NilDeps
    ELSE tbl[CHOOSE k \in DOMAIN tbl : \A j \in DOMAIN tbl : j <= k]

\* operationDependencies[op]: nil when nothing was stored for op.
GetOperationDependencies(tbl, op) ==
    IF op \in DOMAIN tbl THEN tbl[op] ELSE NilDeps

\* DependencyAwareService.ProcessWithDependencies(ctx, input)
ProcessWithDependencies(c, input) ==
    LET deps == DependenciesFromContext(c) IN
    IF deps = NilDeps
    THEN [result |-> <<"no-deps:">> \o input, err |-> NilError]
    ELSE IF deps.gotype # "*TestDependencies"
    THEN [result |-> <<"wrong-type:">> \o input, err |-> NilError]
    ELSE [result |-> <<deps.Value, ":">> \o input, err |-> NilError]

\* The default dependencies a bus is built with.
BusDefaults == { NilDeps, TestDependencies("default-value") }

\* The dependencies a caller passes to CreateOperationWithDependencies.
OverrideDeps ==
    { NilDeps, TestDependencies("special-value"), SpecialDependencies("special-type") }

\* The contexts a caller passes to Execute: the empty one, one that carries
\* dependencies, and one that carries dependencies and the metadata of the
\* first operation (the context that operation's business logic was given).
CallerContexts ==
    { Background,
      WithDependencies(Background, TestDependencies("context-test")),
      WithOperationMetadata(WithDependencies(Background, TestDependencies("context-test")),
                            1) }

\* What origin records for an operation of this package: the entry point
\* that built it and the dependencies that call was given.
Built(entry, deps) == [call |-> entry, deps |-> deps]

\* createOperationInternal[TOp](bus, params, deps), reached from entry.
createOperationInternal(entry, opType, params, deps, dt) ==
    /\ calls < MaxCalls
    /\ calls' = calls + 1
    /\ Len(ops) < MaxOps
    /\ clock + dt <= MaxClock
    /\ LET serviceType == getRequiredServiceType(opType)
           got == get(services, serviceType)
           metadata == OperationMetadata(generateUUID(generated), clock + dt,
                                         ZeroTime, ZeroTime)
           built == newOperationWithService(opType, params, got.service, metadata,
                                            BusLogger)
       IN IF got.panic
          THEN /\ ret' = Ret(entry, "panic", 0, got.msg, NoResult, deps, 0)
               /\ events' = << >>
               /\ UNCHANGED <<ops, origin, clock, generated, operationDependencies>>
          ELSE /\ generated' = generated + 1
               /\ clock' = clock + dt
               /\ events' = <<LogEvent("Info", "Operation created", metadata.UUID)>>
               /\ IF built.panic
                  THEN /\ ret' = Ret(entry, "panic", 0, built.err, NoResult, deps, 0)
                       /\ UNCHANGED <<ops, origin, operationDependencies>>
                  ELSE /\ ops' = Append(ops, built.op)
                       /\ origin' = Append(origin, Built(entry, deps))
                       /\ operationDependencies' =
                              IF deps # NilDeps
                              THEN storeOperationDependencies(operationDependencies,
                                                              Len(ops) + 1, deps)
                              ELSE operationDependencies
                       /\ ret' = Ret(entry, "ok", Len(ops) + 1, NilError, NoResult, deps, 0)
    /\ UNCHANGED <<services, desc, descOf, pc, cur, accessing, defaultDeps, ctx>>

\* A CreateOperation that gives the operation no dependencies, whatever the
\* bus holds.
CreateOperationDefaultNoDeps(opType, params, dt) ==
    /\ pc = "idle"
    /\ createOperationInternal("CreateOperation", opType, params, NilDeps, dt)

\* CreateOperation[TOp](bus, params) of package commandment
CreateOperationDefault(opType, params, dt) ==
    /\ pc = "idle"
    /\ createOperationInternal("CreateOperation", opType, params, defaultDeps, dt)

\* CreateOperationWithDependencies[TOp](bus, params, deps)
CreateOperationWithDependencies(opType, params, deps, dt) ==
    /\ pc = "idle"
    /\ createOperationInternal("CreateOperationWithDependencies", opType, params, deps, dt)

\* GetDependencies(op)
GetDependencies(o) ==
    /\ pc = "idle"
    /\ calls < MaxCalls
    /\ calls' = calls + 1
    /\ o \in 1..Len(ops)
    /\ ret' = Ret("GetDependencies", "ok", o, NilError,
                  GetOperationDependencies(operationDependencies, o), "", 0)
    /\ events' = << >>
    /\ UNCHANGED <<services, ops, origin, clock, generated, desc, descOf, pc, cur,
                   accessing, defaultDeps, operationDependencies, ctx>>

\* An enrichment that falls back to the bus default when the operation has
\* no dependencies of its own.
enrichWithFallback(caller, o, deps) ==
    LET d == IF deps = NilDeps THEN defaultDeps ELSE deps IN
    IF d # NilDeps
    THEN WithDependencies(WithOperationMetadata(caller, o), d)
    ELSE WithOperationMetadata(caller, o)

\* The context ExecuteOperation hands to the business logic: the caller's,
\* with the operation's metadata and, if it has any, its dependencies.
enrich(caller, o, deps) ==
    IF deps # NilDeps
    THEN WithDependencies(WithOperationMetadata(caller, o), deps)
    ELSE WithOperationMetadata(caller, o)

\* ExecuteOperation(ctx, op, businessLogic), up to the "started" event.
ExecuteOperationBegin(o, caller, dt) ==
    /\ pc = "idle"
    /\ calls < MaxCalls
    /\ calls' = calls + 1
    /\ o \in 1..Len(ops)
    /\ clock + dt <= MaxClock
    /\ clock' = clock + dt
    /\ ops' = [ops EXCEPT ![o].OperationMeta = stampExecuted(@, clock + dt)]
    /\ ctx' = enrich(caller, o, GetOperationDependencies(operationDependencies, o))
    /\ events' = <<LogEvent("Info", "Operation execution started",
                            ops[o].OperationMeta.UUID)>>
    /\ cur' = [op |-> o, result |-> NoResult, err |-> NilError, caller |-> caller]
    /\ pc' = "invoke"
    /\ UNCHANGED <<services, origin, generated, desc, descOf, ret,
                   accessing, defaultDeps, operationDependencies>>

\* result, err := businessLogic(ctxWithMeta)
ExecuteOperationInvoke ==
    /\ pc = "invoke"
    /\ LET r == ProcessWithDependencies(ctx, ops[cur.op].Params) IN
       cur' = [cur EXCEPT !.result = r.result, !.err = r.err]
    /\ events' = Append(events, CallEvent(ops[cur.op].OperationMeta.UUID))
    /\ pc' = "return"
    /\ UNCHANGED <<services, ops, origin, clock, generated, desc, descOf, calls, ret,
                   accessing, defaultDeps, operationDependencies, ctx>>

\* The rest of ExecuteOperation: Returned, the terminal event, the return.
ExecuteOperationEnd(dt) ==
    /\ pc = "return"
    /\ clock + dt <= MaxClock
    /\ clock' = clock + dt
    /\ ops' = [ops EXCEPT ![cur.op].OperationMeta = stampReturned(@, clock + dt)]
    /\ events' = Append(events, terminalEvent(ops[cur.op].OperationMeta.UUID, cur.err))
    /\ LET out == returnPair(cur.result, cur.err) IN
       ret' = Ret("Execute", "ok", cur.op, out.err, out.result, cur.caller, 0)
    /\ pc' = "idle"
    /\ cur' = NoCur
    /\ UNCHANGED <<services, origin, generated, desc, descOf, calls,
                   accessing, defaultDeps, operationDependencies, ctx>>

DependencyAwareInputs == { <<"override-input">> }

InitDeps == \E deps \in BusDefaults : InitWith(deps)

NextDeps ==
    \/ RegisterService("DependencyAwareService", Instance("DependencyAwareService", 1))
    \/ \E dt \in 0..1, p \in DependencyAwareInputs :
          CreateOperationDefault("DependencyAwareOperation", GoValue("string", p), dt)
    \/ \E dt \in 0..1, p \in DependencyAwareInputs, deps \in OverrideDeps :
          CreateOperationWithDependencies("DependencyAwareOperation", GoValue("string", p),
                                          deps, dt)
    \/ \E o \in 1..MaxOps : GetDependencies(o)
    \/ \E o \in 1..MaxOps, dt \in 0..1, caller \in CallerContexts :
          ExecuteOperationBegin(o, caller, dt)
    \/ ExecuteOperationInvoke
    \/ \E dt \in 0..1 : ExecuteOperationEnd(dt)

SpecDeps == InitDeps /\ [][NextDeps]_vars

(***************************************************************************)
(* Package commandment used from several goroutines, each constructing     *)
(* operations with CreateOperationWithDependencies after the registrations *)
(* are done.  operationDependencies is one package-level map, the same for *)
(* every bus and every operation, and storeOperationDependencies takes no  *)
(* lock: a goroutine's write to it begins and ends in separate steps.  The *)
(* runtime may detect two overlapping map writes and throw, or both        *)
(* complete.                                                               *)
(***************************************************************************)
\* The statement operationDependencies[op] = deps in progress.
Store(op, deps) == [kind |-> "store", op |-> op, deps |-> deps]

\* Another goroutine than g is writing the map while g is.
StoreOverlapped(g) ==
    \E h \in Goroutines \ {g} : accessing[h].kind = "store"

\* The state after the bootstrap: NewServiceRegistry, the registration of
\* the service, and NewOperationBus.
InitBootstrapped ==
    /\ accessing = [g \in Goroutines |-> NoAccess]
    /\ defaultDeps = NilDeps
    /\ operationDependencies = NoDependencies
    /\ ctx = Background
    /\ services = register([c \in {} |-> NoInstance], "DependencyAwareService",
                           Instance("DependencyAwareService", 1))
    /\ ops = << >>
    /\ origin = << >>
    /\ events = << >>
    /\ clock = 1
    /\ generated = 0
    /\ desc = ZeroDescriptor
    /\ descOf = 0
    /\ pc = "idle"
    /\ cur = NoCur
    /\ calls = 0
    /\ ret = Ret("", "ok", 0, NilError, NoResult, "", 0)

\* createOperationInternal on goroutine g, up to the statement that stores
\* the dependencies; without dependencies the call returns here.
constructBegin(g, opType, params, deps, dt) ==
    /\ ret.outcome # "fatal"
    /\ accessing[g].kind = "none"
    /\ calls < MaxCalls
    /\ calls' = calls + 1
    /\ Len(ops) < MaxOps
    /\ clock + dt <= MaxClock
    /\ LET entry == "CreateOperationWithDependencies"
           serviceType == getRequiredServiceType(opType)
           got == get(services, serviceType)
           metadata == OperationMetadata(generateUUID(generated), clock + dt,
                                         ZeroTime, ZeroTime)
           built == newOperationWithService(opType, params, got.service, metadata,
                                            BusLogger)
       IN IF got.panic
          THEN /\ ret' = Ret(entry, "panic", 0, got.msg, NoResult, deps, 0)
               /\ events' = << >>
               /\ UNCHANGED <<ops, origin, clock, generated, accessing>>
          ELSE /\ generated' = generated + 1
               /\ clock' = clock + dt
               /\ events' = <<LogEvent("Info", "Operation created", metadata.UUID)>>
               /\ IF built.panic
                  THEN /\ ret' = Ret(entry, "panic", 0, built.err, NoResult, deps, 0)
                       /\ UNCHANGED <<ops, origin, accessing>>
                  ELSE /\ ops' = Append(ops, built.op)
                       /\ origin' = Append(origin, Built(entry, deps))
                       /\ IF deps # NilDeps
                          THEN /\ accessing' = [accessing EXCEPT
                                                  ![g] = Store(Len(ops) + 1, deps)]
                               /\ UNCHANGED ret
                          ELSE /\ ret' = Ret(entry, "ok", Len(ops) + 1, NilError,
                                             NoResult, deps, 0)
                               /\ UNCHANGED accessing
    /\ UNCHANGED <<services, desc, descOf, pc, cur, defaultDeps, operationDependencies, ctx>>

\* The store completes and the call returns the operation, or the runtime
\* throws.
constructEnd(g) ==
    /\ ret.outcome # "fatal"
    /\ accessing[g].kind = "store"
    /\ accessing' = [accessing EXCEPT ![g] = NoAccess]
    /\ \/ /\ operationDependencies' =
                 storeOperationDependencies(operationDependencies, accessing[g].op,
                                            accessing[g].deps)
          /\ ret' = Ret("CreateOperationWithDependencies", "ok", accessing[g].op,
                        NilError, NoResult, accessing[g].deps, 0)
       \/ /\ StoreOverlapped(g)
          /\ ret' = Throw("CreateOperationWithDependencies", "operationDependencies")
          /\ UNCHANGED operationDependencies
    /\ UNCHANGED <<services, ops, origin, events, clock, generated, desc, descOf, pc, cur,
                   calls, defaultDeps, ctx>>

NextDepsConcurrent ==
    \/ \E g \in Goroutines, dt \in 0..1, p \in DependencyAwareInputs, deps \in OverrideDeps :
          constructBegin(g, "DependencyAwareOperation", GoValue("string", p), deps, dt)
    \/ \E g \in Goroutines : constructEnd(g)

SpecDepsConcurrent == InitBootstrapped /\ [][NextDepsConcurrent]_vars


(***************************************************************************)
(* Properties.                                                             *)
(***************************************************************************)
Registered(x) == [panic |-> FALSE, service |-> x, msg |-> NilError]

\* C1: get(c) returns the very instance last registered under c, and a step
\* that is not a registration under c leaves what get(c) returns unchanged.
C1_GetReturnsRegistered ==
    [][\A c \in Contracts :
          IF \E x \in ServiceInstances : RegisterService(c, x)
          THEN \E x \in ServiceInstances :
                  RegisterService(c, x) /\ get(services', c) = Registered(x)
          ELSE get(services', c) = get(services, c)]_vars

C1_Witness ==
    /\ ret.call = "GetService"
    /\ ret.outcome = "ok"
    /\ ret.arg = "ListService"
    /\ ret.result = Instance("MockListService", 1)
    /\ Cardinality(DOMAIN services) = 3

\* C2: registering x under a contract that already has an instance succeeds
\* without error, keeps one entry for the contract, and get(c) then
\* returns x.
C2_LastWriteWins ==
    [][\A c \in Contracts, x \in ServiceInstances :
          (c \in DOMAIN services /\ RegisterService(c, x)) =>
              /\ ret'.outcome = "ok"
              /\ ret'.err = NilError
              /\ DOMAIN services' = DOMAIN services
              /\ get(services', c) = Registered(x)]_vars

C2_Witness ==
    /\ ret.call = "RegisterService"
    /\ ret.arg = "ListService"
    /\ ret.result = Instance("StubListService", 1)
    /\ services["ListService"] = Instance("StubListService", 1)
    /\ \E o \in 1..Len(ops) : ops[o].Service = Instance("MockListService", 1)

\* C3: CreateOperation for an operation type whose service contract is not
\* registered returns an error naming the contract and no operation; it
\* does not panic.
C3_UnregisteredReturnsError ==
    (ret.call = "CreateOperation" /\ ret.arg \in Contracts
        /\ ret.arg \notin DOMAIN services) =>
        /\ ret.outcome = "error"
        /\ ret.op = 0
        /\ ret.err.about = ret.arg

\* An operation on which no Execute is in progress.
AtRest(o) == ~(pc # "idle" /\ cur.op = o)

\* C4: for an operation built by CreateOperation and executed,
\* created <= executed <= returned once Execute has returned.
C4_TimestampsOrdered ==
    \A o \in 1..Len(ops) :
        (origin[o] = "CreateOperation" /\ AtRest(o)
            /\ ops[o].OperationMeta.Executed # ZeroTime) =>
            /\ ops[o].OperationMeta.Created <= ops[o].OperationMeta.Executed
            /\ ops[o].OperationMeta.Executed <= ops[o].OperationMeta.Returned

C4_Witness ==
    /\ ret.call = "Execute"
    /\ ret.err # NilError
    /\ origin[ret.op] = "CreateOperation"
    /\ ops[ret.op].OperationMeta.Created < ops[ret.op].OperationMeta.Executed
    /\ ops[ret.op].OperationMeta.Executed <= ops[ret.op].OperationMeta.Returned

\* The operation rebuilt by the latest call agrees with the operation the
\* descriptor was taken from.
RoundTripAgrees ==
    /\ ops[ret.op].type = ops[ret.from].type
    /\ ops[ret.op].Params = ops[ret.from].Params
    /\ ops[ret.op].OperationMeta.UUID = ops[ret.from].OperationMeta.UUID
    /\ ops[ret.op].OperationMeta.Created = ops[ret.from].OperationMeta.Created

RoundTripDone ==
    /\ ret.call = "CreateFromDescriptor"
    /\ ret.outcome = "ok"
    /\ ret.from # 0

\* Every string field of the parameters is valid UTF-8.
ValidUTF8(opType, params) ==
    \A f \in DOMAIN FieldTypes(ParamsType(opType)) :
        FieldTypes(ParamsType(opType))[f] = "string" =>
            \A i \in 1..Len(params[f]) : params[f][i] # InvalidByte

\* C5 as stated: CreateFromDescriptor(O.Descriptor()) yields an operation of
\* the same type with equal parameters, id and created, for any parameters.
C5_RoundTripAnyParams == RoundTripDone => RoundTripAgrees

\* C5 amended: the round trip preserves type, parameters, id and created
\* when the string parameters are valid UTF-8.
C5_RoundTripValidUTF8 ==
    (RoundTripDone /\ ValidUTF8(ops[ret.from].type, ops[ret.from].Params)) =>
        RoundTripAgrees

C5_Witness ==
    /\ RoundTripDone
    /\ ops[ret.from].type = "CreateListCommand"
    /\ ops[ret.from].Params.Title = <<"Test List", "<">>
    /\ ops[ret.op].Params.ParentID = <<0 - 17>>
    /\ ret.op # ret.from

\* C6: an operation rebuilt by CreateFromDescriptor has executed and
\* returned unset, whatever the descriptor carried.
C6_RebuiltNotExecuted ==
    (ret.call = "CreateFromDescriptor" /\ ret.outcome = "ok" /\ pc = "idle") =>
        /\ ops[ret.op].OperationMeta.Executed = ZeroTime
        /\ ops[ret.op].OperationMeta.Returned = ZeroTime

\* C7: CreateFromDescriptor with an unknown type tag returns an error
\* naming the tag and no operation, without a panic and without touching
\* the registry.
C7_UnknownTagIsError ==
    [][\A d \in {desc} \cup ForeignDescriptors :
          (d.Type \notin OperationTypes /\ CreateFromDescriptor(d)) =>
              /\ ret'.outcome = "error"
              /\ ret'.err # NilError
              /\ ret'.err.about = d.Type
              /\ ret'.op = 0
              /\ ops' = ops
              /\ services' = services]_vars

C7_Witness ==
    /\ ret.call = "CreateFromDescriptor"
    /\ ret.arg = "DeleteNodeCommand"
    /\ ret.outcome = "error"
    /\ ret.err.about = "DeleteNodeCommand"
    /\ DOMAIN services # {}

\* How many times the business logic ran during the latest call.
Invocations == Cardinality({i \in 1..Len(events) : events[i].kind = "Call"})

\* C8: each Execute invokes the business logic exactly once, whether it
\* fails or not.
C8_InvokedExactlyOnce ==
    /\ ret.call = "Execute" /\ pc = "idle" => Invocations = 1
    /\ pc = "invoke" => Invocations = 0
    /\ pc = "return" => Invocations = 1

C8_Witness ==
    /\ ret.call = "Execute"
    /\ pc = "idle"
    /\ ret.err # NilError
    /\ Invocations = 1

\* C9: each Execute emits one "started" event before the business logic and
\* one terminal event after it, "failed" exactly when the business logic
\* returned an error, every event carrying the operation's id.
C9_LogEvents ==
    (ret.call = "Execute" /\ pc = "idle") =>
        LET id == ops[ret.op].OperationMeta.UUID IN
        /\ Len(events) = 3
        /\ events[1] = LogEvent("Info", "Operation execution started", id)
        /\ events[2] = CallEvent(id)
        /\ events[3].id = id
        /\ events[3].msg \in {"Operation execution failed", "Operation execution completed"}
        /\ events[3].msg = "Operation execution failed" <=> ret.err # NilError

C9_Witness ==
    /\ ret.call = "Execute"
    /\ pc = "idle"
    /\ ret.err # NilError
    /\ events[3] = LogEvent("Error", "Operation execution failed",
                            ops[ret.op].OperationMeta.UUID)

\* C10: Execute returns exactly the (result, error) pair the service
\* returned for the operation's parameters.
C10_ResultPassedThrough ==
    (ret.call = "Execute" /\ pc = "idle") =>
        /\ ret.result = businessLogic(ops[ret.op]).result
        /\ ret.err = businessLogic(ops[ret.op]).err

C10_Witness ==
    /\ ret.call = "Execute"
    /\ pc = "idle"
    /\ ops[ret.op].type = "CreateListCommand"
    /\ ret.err = NilError
    /\ ret.result.Node = ZeroNode
    /\ Len(ret.result.Errors) = 1
    /\ ret.result.Errors[1].Field = "Title"

\* C11: the id of an operation is the one CreateOperation generated for it,
\* and no later step (Execute, Metadata, Descriptor, or any other call)
\* changes it; every descriptor taken from the operation carries that id.
C11_IdNeverChanges ==
    [][/\ \A o \in 1..Len(ops) :
            /\ o <= Len(ops')
            /\ Metadata(ops'[o]).UUID = Metadata(ops[o]).UUID
            /\ TakeDescriptor(o) => desc'.Metadata.UUID = Metadata(ops[o]).UUID
       /\ \A t \in DeclaredTypes, dt \in 0..1 : \A p \in CreateArgs(t) :
            (CreateOperation(t, p, dt) /\ ret'.outcome = "ok") =>
                /\ Len(ops') = Len(ops) + 1
                /\ Metadata(ops'[Len(ops')]).UUID = generateUUID(generated)
                /\ Metadata(ops'[Len(ops')]).UUID # 0]_vars

C11_Witness ==
    /\ ret.call = "Descriptor"
    /\ origin[ret.op] = "CreateOperation"
    /\ Metadata(ops[ret.op]).Returned # ZeroTime
    /\ desc.Metadata.UUID = Metadata(ops[ret.op]).UUID
    /\ Metadata(ops[ret.op]).UUID = 2

\* C12: CreateOperation with a value whose type is not the type of the
\* operation's Params slot (its service being registered) returns an error
\* value and no operation instance; it does not panic.
C12_MismatchReturnsError ==
    [][\A t \in DeclaredTypes, dt \in 0..1 : \A p \in MismatchedArgs(t) :
          (getRequiredServiceType(t) \in DOMAIN services /\ CreateOperation(t, p, dt)) =>
              /\ ret'.outcome = "error"
              /\ ret'.err # NilError
              /\ ret'.op = 0
              /\ ops' = ops]_vars

\* C13: CreateOperation for an operation type without a field named Service
\* returns a shape-discovery error value and no operation instance.
C13_NoServiceSlotReturnsError ==
    [][\A t \in ServicelessTypes, dt \in 0..1 : \A p \in CreateArgs(t) :
          CreateOperation(t, p, dt) =>
              /\ ret'.outcome = "error"
              /\ ret'.err # NilError
              /\ ret'.op = 0
              /\ ops' = ops]_vars

\* A descriptor with a known type tag whose payload does not decode into
\* the parameter type of that tag.
Undecodable(d) ==
    /\ d.Type \in OperationTypes
    /\ \/ mustMarshal(d.Params).panic
       \/ Unmarshal(mustMarshal(d.Params).data, ParamsType(d.Type)).err # NilError

\* C14: CreateFromDescriptor with a known type tag and a payload that does
\* not decode returns an error value and no operation, without a panic,
\* whether or not the service is registered.
C14_DecodeFailureIsError ==
    [][\A d \in ForeignDescriptors :
          (Undecodable(d) /\ CreateFromDescriptor(d)) =>
              /\ ret'.outcome = "error"
              /\ ret'.err # NilError
              /\ ret'.op = 0
              /\ ops' = ops]_vars

\* C15: Descriptor() leaves the operation as it was and returns its type
\* tag, params and metadata; called again with no Execute in between, it
\* returns an equal descriptor.
C15_DescriptorIdempotent ==
    [][\A o \in 1..MaxOps :
          TakeDescriptor(o) =>
              /\ ops' = ops
              /\ desc'.Type = ops[o].type
              /\ desc'.Params.val = ops[o].Params
              /\ desc'.Metadata = Metadata(ops[o])
              /\ Descriptor(ops'[o]) = desc'
              /\ (ret.call = "Descriptor" /\ ret.op = o) => desc' = desc]_vars

C15_Witness ==
    /\ ret.call = "Descriptor"
    /\ descOf = ret.op
    /\ ops[ret.op].type = "CreateListCommand"
    /\ desc.Params.val.ParentID # NilPtr
    /\ desc.Metadata.Executed # ZeroTime
    /\ desc = Descriptor(ops[ret.op])

\* A step of Execute.
ExecuteStep ==
    \/ \E o \in 1..MaxOps, dt \in 0..1 : ExecuteBegin(o, dt)
    \/ InvokeBusinessLogic
    \/ \E dt \in 0..1 : ExecuteEnd(dt)

\* C16: a descriptor is a record of type tag, params and metadata only (no
\* service, no logger), and no step of Execute changes a descriptor taken
\* earlier: its id, created, executed and returned stay as they were read.
C16_DescriptorIsSnapshot ==
    /\ [](DOMAIN desc = {"Type", "Params", "Metadata"})
    /\ [][ExecuteStep => desc' = desc]_vars

C16_Witness ==
    /\ ret.call = "Execute"
    /\ pc = "idle"
    /\ ret.op = descOf
    /\ desc.Metadata.Executed = ZeroTime
    /\ desc.Metadata.Returned = ZeroTime
    /\ Metadata(ops[descOf]).Executed # ZeroTime
    /\ Metadata(ops[descOf]).Returned # ZeroTime
    /\ desc.Metadata.UUID = Metadata(ops[descOf]).UUID
    /\ desc.Metadata.Created = Metadata(ops[descOf]).Created

\* The operation the current step of Execute works on.
Executing(o) ==
    \/ \E dt \in 0..1 : ExecuteBegin(o, dt)
    \/ cur.op = o /\ (InvokeBusinessLogic \/ \E dt \in 0..1 : ExecuteEnd(dt))

\* C17: a step of Execute on one operation changes nothing but that
\* operation's executed and returned timestamps; every other instance,
\* the one it was rebuilt from or the one rebuilt from it included, keeps
\* its metadata.
C17_ExecuteTouchesOnlyItsOwn ==
    [][\A o \in 1..MaxOps :
          Executing(o) =>
              /\ \A i \in 1..Len(ops) : i # o => ops'[i] = ops[i]
              /\ ops'[o] = [ops[o] EXCEPT
                               !.OperationMeta.Executed = Metadata(ops'[o]).Executed,
                               !.OperationMeta.Returned = Metadata(ops'[o]).Returned]]_vars

C17_Witness ==
    /\ ret.call = "Execute"
    /\ pc = "idle"
    /\ \E a \in 1..Len(ops) :
          /\ a # ret.op
          /\ origin[a] = "CreateOperation"
          /\ origin[ret.op] = "CreateFromDescriptor"
          /\ Metadata(ops[a]).UUID = Metadata(ops[ret.op]).UUID
          /\ Metadata(ops[a]).Executed = ZeroTime
          /\ Metadata(ops[ret.op]).Returned # ZeroTime

\* C19: a lookup of a contract that was never registered panics with a
\* message naming the contract; it returns no instance, nil or other.
C19_LookupOfUnregisteredPanics ==
    [][\A c \in Contracts :
          (c \notin DOMAIN services /\ GetService(c)) =>
              /\ ret'.outcome = "panic"
              /\ ret'.err.msg = "Service type not registered"
              /\ ret'.err.about = c
              /\ get(services', c).panic]_vars

C19_Witness ==
    /\ ret.call = "GetService"
    /\ ret.outcome = "panic"
    /\ ret.arg = "NodeService"
    /\ ret.err.about = "NodeService"
    /\ DOMAIN services = {"TreeService", "ListService"}

\* C18: no two goroutines are inside the registry's map at the same moment
\* when one of them is registering.
C18_RegistryAccessExclusive ==
    \A g \in Goroutines, h \in Goroutines :
        (g # h /\ accessing[g].kind = "write") => accessing[h].kind = "none"

\* The dependencies the operation o was created with: those passed to
\* CreateOperationWithDependencies, or the bus default for CreateOperation.
CreatedWith(o) ==
    IF origin[o].call = "CreateOperationWithDependencies"
    THEN origin[o].deps
    ELSE defaultDeps

\* GetDependencies(op) gives the dependencies op was created with, for
\* every operation, whatever was created before or after it.
SeenByGetDependencies ==
    \A o \in 1..Len(ops) :
        /\ GetOperationDependencies(operationDependencies, o) = CreatedWith(o)
        /\ (ret.call = "GetDependencies" /\ ret.op = o) => ret.result = CreatedWith(o)

\* C20 as stated: every operation sees the dependencies it was created
\* with (d for CreateOperationWithDependencies, the bus default for
\* CreateOperation) through GetDependencies and, while it executes, through
\* DependenciesFromContext.
C20_DependenciesPerOperation ==
    /\ SeenByGetDependencies
    /\ \A o \in 1..Len(ops) :
          (pc # "idle" /\ cur.op = o) => DependenciesFromContext(ctx) = CreatedWith(o)

\* C20 amended: as above when the dependencies the operation was created
\* with are not nil; when they are nil, the business logic sees the
\* dependencies of the context the caller passed to Execute.
C20_DependenciesPerOperationUnlessNil ==
    /\ SeenByGetDependencies
    /\ \A o \in 1..Len(ops) :
          (pc # "idle" /\ cur.op = o) =>
              DependenciesFromContext(ctx) =
                  IF CreatedWith(o) # NilDeps
                  THEN CreatedWith(o)
                  ELSE DependenciesFromContext(cur.caller)

C20_Witness ==
    /\ pc = "return"
    /\ defaultDeps = TestDependencies("default-value")
    /\ Len(ops) = 2
    /\ origin[1].call = "CreateOperation"
    /\ origin[2] = Built("CreateOperationWithDependencies",
                         TestDependencies("special-value"))
    /\ cur.op = 2
    /\ cur.caller = WithDependencies(Background, TestDependencies("context-test"))
    /\ cur.result = <<"special-value", ":", "override-input">>
    /\ GetOperationDependencies(operationDependencies, 1) = defaultDeps

\* C21: an operation created with CreateOperation has the bus's default
\* dependencies through GetDependencies, and, executed with a context that
\* carries no dependencies, its business logic sees those same defaults;
\* both are nil on a bus built without defaults.
C21_DefaultsReachOperation ==
    \A o \in 1..Len(ops) :
        origin[o].call = "CreateOperation" =>
            /\ GetOperationDependencies(operationDependencies, o) = defaultDeps
            /\ (ret.call = "GetDependencies" /\ ret.op = o) => ret.result = defaultDeps
            /\ (pc # "idle" /\ cur.op = o
                  /\ DependenciesFromContext(cur.caller) = NilDeps) =>
                  DependenciesFromContext(ctx) = defaultDeps
            /\ (pc = "return" /\ cur.op = o
                  /\ DependenciesFromContext(cur.caller) = NilDeps) =>
                  cur.result = ProcessWithDependencies(
                                   WithDependencies(Background, defaultDeps),
                                   ops[o].Params).result

C21_Witness ==
    /\ pc = "return"
    /\ defaultDeps = TestDependencies("default-value")
    /\ origin[cur.op].call = "CreateOperation"
    /\ cur.caller = Background
    /\ DependenciesFromContext(ctx) = TestDependencies("default-value")
    /\ cur.result = <<"default-value", ":", "override-input">>
    /\ \E o \in 1..Len(ops) : origin[o].call = "CreateOperationWithDependencies"

\* C22: CreateFromDescriptor with a known type tag and a payload that
\* decodes, the tag's service contract not being registered, returns an
\* error value and no operation; it does not panic.
C22_RebuildUnregisteredReturnsError ==
    [][\A d \in {desc} \cup ForeignDescriptors :
          (/\ d.Type \in OperationTypes
           /\ ~Undecodable(d)
           /\ getRequiredServiceType(d.Type) \notin DOMAIN services
           /\ CreateFromDescriptor(d)) =>
              /\ ret'.outcome = "error"
              /\ ret'.err # NilError
              /\ ret'.op = 0
              /\ ops' = ops]_vars

SerializedMetadata == ret.result.fields["metadata"].fields

\* C24: in the JSON form of a descriptor taken from an operation, executed
\* and returned are absent when they are unset (the operation was never
\* executed) and present when they are set.
C24_UnsetTimestampsOmitted ==
    (ret.call = "MarshalJSON" /\ ret.outcome = "ok" /\ ret.from # 0) =>
        /\ "executed" \in DOMAIN SerializedMetadata <=> desc.Metadata.Executed # ZeroTime
        /\ "returned" \in DOMAIN SerializedMetadata <=> desc.Metadata.Returned # ZeroTime

\* C25: constructing an operation writes no state that another operation
\* or another bus can reach (the map from operation to dependencies is
\* left as it was), so two constructions in progress at the same moment
\* never write the same location.
C25_ConstructionsShareNothing ==
    /\ [](\A g \in Goroutines, h \in Goroutines :
             g # h => ~(accessing[g].kind = "store" /\ accessing[h].kind = "store"))
    /\ [][\A g \in Goroutines :
             constructEnd(g) => operationDependencies' = operationDependencies]_vars

\* An operation on which an Execute has already run to its end.
ExecutedBefore(o) ==
    /\ o \in 1..Len(ops)
    /\ origin[o] = "CreateOperation"
    /\ Metadata(ops[o]).Executed # ZeroTime
    /\ Metadata(ops[o]).Returned # ZeroTime

\* C26: a second Execute of the same instance overwrites executed and
\* returned with the times of the second run, keeps id and created, and
\* leaves created <= executed <= returned when it has returned.
C26_SecondRunOverwrites ==
    [][\A o \in 1..MaxOps, dt \in 0..1 :
          /\ (ExecutedBefore(o) /\ ExecuteBegin(o, dt)) =>
                /\ Metadata(ops'[o]).Executed = clock + dt
                /\ Metadata(ops'[o]).UUID = Metadata(ops[o]).UUID
                /\ Metadata(ops'[o]).Created = Metadata(ops[o]).Created
          /\ (ExecutedBefore(o) /\ cur.op = o /\ ExecuteEnd(dt)) =>
                /\ Metadata(ops'[o]).Returned = clock + dt
                /\ Metadata(ops'[o]).UUID = Metadata(ops[o]).UUID
                /\ Metadata(ops'[o]).Created = Metadata(ops[o]).Created
                /\ Metadata(ops'[o]).Created <= Metadata(ops'[o]).Executed
                /\ Metadata(ops'[o]).Executed <= Metadata(ops'[o]).Returned]_vars

C26_Witness ==
    /\ ret.call = "Execute"
    /\ pc = "idle"
    /\ origin[ret.op] = "CreateOperation"
    /\ desc.Metadata.UUID = Metadata(ops[ret.op]).UUID
    /\ desc.Metadata.Created = Metadata(ops[ret.op]).Created
    /\ desc.Metadata.Executed # ZeroTime
    /\ desc.Metadata.Returned # ZeroTime
    /\ desc.Metadata.Executed < Metadata(ops[ret.op]).Executed
    /\ desc.Metadata.Returned < Metadata(ops[ret.op]).Returned

\* What Execute must leave alone in an operation: everything but the
\* executed and returned timestamps.
Fixed(op) ==
    [type |-> op.type, Params |-> op.Params, Service |-> op.Service,
     Logger |-> op.Logger, UUID |-> Metadata(op).UUID, Created |-> Metadata(op).Created]

\* C27: a step of Execute leaves the parameters, the service reference, the
\* logger reference, the id and the created timestamp of every operation
\* as they were, allocates no operation and does not modify the registry.
C27_ExecuteFrame ==
    [][ExecuteStep =>
          /\ services' = services
          /\ Len(ops') = Len(ops)
          /\ \A o \in 1..Len(ops) : Fixed(ops'[o]) = Fixed(ops[o])]_vars

C27_Witness ==
    /\ ret.call = "Execute"
    /\ pc = "idle"
    /\ descOf = ret.op
    /\ ops[ret.op].type = "CreateListCommand"
    /\ desc.Metadata.Executed = ZeroTime
    /\ Metadata(ops[ret.op]).Returned # ZeroTime
    /\ Fixed(ops[ret.op]) =
          [type |-> desc.Type, Params |-> desc.Params.val,
           Service |-> services["ListService"], Logger |-> BusLogger,
           UUID |-> desc.Metadata.UUID, Created |-> desc.Metadata.Created]
    /\ ops[ret.op].Params.ParentID # NilPtr

\* C28: an operation's service is the instance the registry held for its
\* contract when the operation was constructed or reconstructed (for
\* CreateFromDescriptor: at reconstruction, whatever the original held);
\* no later step, a registration included, changes it, and Execute calls
\* that instance.
C28_ServiceFixedAtConstruction ==
    [][/\ \A o \in 1..Len(ops) :
            /\ o <= Len(ops')
            /\ ops'[o].Service = ops[o].Service
       /\ \A t \in DeclaredTypes, dt \in 0..1 : \A p \in CreateArgs(t) :
            (CreateOperation(t, p, dt) /\ ret'.outcome = "ok") =>
                ops'[Len(ops')].Service = services[getRequiredServiceType(t)]
       /\ \A d \in {desc} \cup ForeignDescriptors :
            (CreateFromDescriptor(d) /\ ret'.outcome = "ok") =>
                ops'[Len(ops')].Service = services[getRequiredServiceType(d.Type)]
       /\ InvokeBusinessLogic =>
            /\ cur'.result = businessLogic(ops[cur.op]).result
            /\ cur'.err = businessLogic(ops[cur.op]).err]_vars

C28_Witness ==
    /\ RoundTripDone
    /\ ops[ret.from].type = "CreateListCommand"
    /\ ops[ret.from].Service = Instance("MockListService", 1)
    /\ ops[ret.op].Service = Instance("StubListService", 1)
    /\ services["ListService"] = Instance("StubListService", 1)

\* An operation built by CreateOperationWithDependencies(bus, p, nil).
CreatedWithNil(o) == origin[o] = Built("CreateOperationWithDependencies", NilDeps)

\* C29: an operation built by CreateOperationWithDependencies(bus, p, nil)
\* has no dependencies, whatever the bus default is: the map has no entry
\* for it, GetDependencies gives nil, and the context its business logic
\* gets carries the dependencies of the caller's context and no others.
C29_NilOverrideMeansNone ==
    \A o \in 1..Len(ops) :
        CreatedWithNil(o) =>
            /\ o \notin DOMAIN operationDependencies
            /\ GetOperationDependencies(operationDependencies, o) = NilDeps
            /\ (ret.call = "GetDependencies" /\ ret.op = o) => ret.result = NilDeps
            /\ (pc # "idle" /\ cur.op = o) =>
                  DependenciesFromContext(ctx) = DependenciesFromContext(cur.caller)
            /\ (pc = "return" /\ cur.op = o) =>
                  cur.result = ProcessWithDependencies(cur.caller, ops[o].Params).result

C29_Witness ==
    /\ pc = "return"
    /\ defaultDeps = TestDependencies("default-value")
    /\ CreatedWithNil(cur.op)
    /\ cur.caller = Background
    /\ cur.op \notin DOMAIN operationDependencies
    /\ DependenciesFromContext(ctx) = NilDeps
    /\ cur.result = <<"no-deps:", "override-input">>
    /\ \E o \in 1..Len(ops) :
          /\ origin[o].call = "CreateOperation"
          /\ GetOperationDependencies(operationDependencies, o) = defaultDeps

\* The metadata read through the handle a context carries.
MetadataThrough(c) == Metadata(ops[OperationMetadataFromContext(c)])

\* C30: while an operation executes, the context handed to its business
\* logic carries the handle of that operation's own metadata, through which
\* its id and the executed timestamp of this run are read; the context's
\* dependencies are the operation's when it has any, and the caller
\* context's otherwise.
C30_ContextOfExecution ==
    pc # "idle" =>
        LET own == GetOperationDependencies(operationDependencies, cur.op) IN
        /\ OperationMetadataFromContext(ctx) = cur.op
        /\ MetadataThrough(ctx).UUID = Metadata(ops[cur.op]).UUID
        /\ MetadataThrough(ctx).Executed = clock
        /\ MetadataThrough(ctx).Executed # ZeroTime
        /\ own # NilDeps => DependenciesFromContext(ctx) = own
        /\ own = NilDeps =>
              DependenciesFromContext(ctx) = DependenciesFromContext(cur.caller)

C30_Witness ==
    /\ pc = "return"
    /\ cur.op = 2
    /\ OperationMetadataFromContext(cur.caller) = 1
    /\ DependenciesFromContext(cur.caller) = TestDependencies("context-test")
    /\ GetOperationDependencies(operationDependencies, 1) = TestDependencies("default-value")
    /\ GetOperationDependencies(operationDependencies, 2) = NilDeps
    /\ OperationMetadataFromContext(ctx) = 2
    /\ MetadataThrough(ctx).UUID # Metadata(ops[1]).UUID
    /\ Metadata(ops[2]).Created < MetadataThrough(ctx).Executed
    /\ cur.result = <<"context-test", ":", "override-input">>

====
